---- MODULE Spec2Model ----
(***************************************************************************)
(* A state-machine model of src/scraper.py (class HLTVDownloader):         *)
(*   get_flaresolverr_solution  - the challenge-solver retry loop          *)
(*   monitor_download           - the download-directory poll loop         *)
(*   _find_download_url_from_html - the redirect resolver                  *)
(*   download_demo              - the pipeline that composes them          *)
(* together with the two environments the code talks to: the solver's     *)
(* HTTP responses and the browser's download subsystem writing into the    *)
(* watched directory.                                                      *)
(*                                                                         *)
(* Python values are represented as follows.  A file name or path is the   *)
(* sequence of its parts, <<"demo123", ".rar", ".crdownload">>; None and   *)
(* the empty string are both the empty sequence (the code only tests them  *)
(* for truthiness).  An exception is the name of its class.                *)
(***************************************************************************)
EXTENDS Integers, Sequences, FiniteSets, TLC

VARIABLES
    \* ---- DownloadConfig (src/scraper.py:30-42)
    retry_count,        \* config.retry_count
    use_undetected,     \* config.use_undetected
    \* ---- get_flaresolverr_solution (src/scraper.py:79-126)
    sol_pc,             \* "idle" | "for" | "backoff" | "done" | "raised"
    attempt,            \* the loop variable of line 92
    sol_result,         \* the FlareSolverrResult returned
    sol_requests,       \* number of requests.post calls made (line 95)
    sol_delays,         \* the lengths of the time.sleep calls made (line 124), in order
    sol_observed,       \* the error message logged by the latest failed attempt
    sol_last,           \* the latest response received from the solver
    \* ---- the download directory and the browser's download subsystem
    dir,                \* name -> size of the entry, Absent when there is none
    dl_state,           \* "none" | "temp" | "direct" | "complete" | "cancelled"
    renamed_at,         \* the time of the rename to the final name, -1 before it
    polling_at_rename,  \* monitor_download was in its loop when the rename took place
    now,                \* time.time(), in poll-interval units
    \* ---- monitor_download (src/scraper.py:254-323)
    mon_pc,             \* "idle" | "while" | "stat" | "sleep" | "done" | "raised"
    expected_filename,  \* the parameter
    start_time,         \* line 257
    pbar,               \* line 258: the tqdm progress bar, or none
    last_size,          \* line 259
    monitored_file,     \* line 260
    mon_result,         \* the value returned
    last_stat,          \* outcome of this tick's stat(): "none" | "ok" | "missing" | "error"
    \* ---- download_demo (src/scraper.py:325-387)
    dd_pc,              \* the position in download_demo; "standalone" when not called
    flaresolverr_result,\* line 330
    driver,             \* the browser session of line 338
    driver_log,         \* the constructor calls and the calls made on the session, in order
    dd_result,          \* the value returned
    dd_exc,             \* the exception on its way out, "none" when there is none
    \* ---- _find_download_url_from_html (src/scraper.py:128-164)
    res_html,           \* the parameter html, as parsed by BeautifulSoup (line 130)
    res_pc,             \* "idle" | "meta" | "scripts" | "return" | "done"
    res_s,              \* the position of the loop of line 146 in scripts
    res_url,            \* the local download_url of line 131
    res_filename        \* the local expected_filename of line 132

solver_vars == <<sol_pc, attempt, sol_result, sol_requests, sol_delays,
                 sol_observed, sol_last>>

config_vars == <<retry_count, use_undetected>>

fs_vars == <<dir, dl_state, renamed_at, polling_at_rename>>

monitor_vars == <<mon_pc, expected_filename, start_time, pbar, last_size,
                  monitored_file, mon_result, last_stat>>

dd_vars == <<dd_pc, flaresolverr_result, driver, driver_log, dd_result, dd_exc>>

resolver_vars == <<res_html, res_pc, res_s, res_url, res_filename>>

vars == <<config_vars, solver_vars, fs_vars, now, monitor_vars, dd_vars, resolver_vars>>

-----------------------------------------------------------------------------
(* Bounds of the model *)

\* retry_count is drawn from 0 .. MaxRetryCount (the default is 3, line 40)
MaxRetryCount == 3

\* a download grows to at most MaxSize bytes
MaxSize == 2

\* config.download_timeout and config.poll_interval, in clock units
DownloadTimeout == 3

PollInterval == 1

-----------------------------------------------------------------------------
(* get_flaresolverr_solution *)

\* the keys read from result["solution"], in the order lines 108-110 read them
SolutionKeys == <<"response", "cookies", "userAgent">>

\* the cookie lists a solver payload may carry (cookie records by name)
CookieLists == {<< >>, <<"cf_clearance", "session">>}

\* what response.json() yields: valid = FALSE when the body is not JSON
JsonBodies ==
    {[valid |-> FALSE, status |-> "none", message |-> "absent",
      keys |-> {}, cookies |-> << >>]}
    \cup {[valid |-> TRUE, status |-> "error", message |-> m,
           keys |-> {}, cookies |-> << >>] : m \in {"absent", "challenge not solved"}}
    \cup {[valid |-> TRUE, status |-> "ok", message |-> "absent",
           keys |-> k, cookies |-> c] :
              k \in SUBSET {"response", "cookies", "userAgent"}, c \in {<< >>}}
    \cup {[valid |-> TRUE, status |-> "ok", message |-> "absent",
           keys |-> {"response", "cookies", "userAgent"}, cookies |-> c] :
              c \in CookieLists}

EmptyBody == [valid |-> FALSE, status |-> "none", message |-> "absent",
              keys |-> {}, cookies |-> << >>]

\* what requests.post does: it raises (a transport error) or returns a response
Responses ==
    {[kind |-> "raises", status_code |-> 0, json |-> EmptyBody]}
    \cup {[kind |-> "http", status_code |-> 500, json |-> EmptyBody]}
    \cup {[kind |-> "http", status_code |-> 200, json |-> b] : b \in JsonBodies}

NoResponse == [kind |-> "none", status_code |-> 0, json |-> EmptyBody]

\* FlareSolverrResult (lines 44-51); absent fields keep their default None
FlareSolverrResult(success, html, cookies, user_agent, error) ==
    [success |-> success, html |-> html, cookies |-> cookies,
     user_agent |-> user_agent, error |-> error]

NoResult == FlareSolverrResult(FALSE, "None", << >>, "None", "None")

\* the first key of SolutionKeys the payload lacks (0 when it has them all):
\* the subscript result["solution"][key] that raises KeyError
RECURSIVE FirstMissingKey(_, _)
FirstMissingKey(json, i) ==
    IF i > Len(SolutionKeys) THEN 0
    ELSE IF SolutionKeys[i] \notin json.keys THEN i
    ELSE FirstMissingKey(json, i + 1)

\* HasSolution reading the keys with .get(): a missing key raises nothing
HasSolution_Lenient(json) == TRUE

\* result["solution"]["response"], ["cookies"], ["userAgent"] all subscript
\* without a KeyError  (lines 108-110)
HasSolution(json) == FirstMissingKey(json, 1) = 0

\* The body of the try block, lines 94-116, on what requests.post produced.
\* outcome "return": line 106 returns; "raise": an exception leaves the try
\* body; "fall": the body ends after logging msg.
TryBody(resp) ==
    IF resp.kind = "raises"
    THEN [outcome |-> "raise", exc |-> "ConnectionError", msg |-> "ConnectionError",
          result |-> NoResult]
    ELSE IF resp.status_code = 200
    THEN IF ~resp.json.valid
         THEN [outcome |-> "raise", exc |-> "JSONDecodeError", msg |-> "JSONDecodeError",
               result |-> NoResult]
         ELSE IF resp.json.status = "ok"
         THEN IF ~HasSolution(resp.json)
              THEN [outcome |-> "raise", exc |-> "KeyError",
                    msg |-> SolutionKeys[FirstMissingKey(resp.json, 1)],
                    result |-> NoResult]
              ELSE [outcome |-> "return", exc |-> "none", msg |-> "none",
                    result |-> FlareSolverrResult(TRUE, "html", resp.json.cookies,
                                                  "solved-agent", "None")]
         ELSE [outcome |-> "fall", exc |-> "none",
               msg |-> IF resp.json.message = "absent" THEN "Unknown error"
                       ELSE resp.json.message,
               result |-> NoResult]
    ELSE [outcome |-> "fall", exc |-> "none", msg |-> "HTTP error", result |-> NoResult]

\* the classes of requests.exceptions.RequestException among the exceptions raised
RequestExceptions == {"ConnectionError", "JSONDecodeError"}

\* the classes derived from Exception among the exceptions raised
Exceptions == {"ConnectionError", "JSONDecodeError", "KeyError"}

\* ExceptClause without the catch-all clause of line 120
ExceptClause_RequestOnly(exc) ==
    IF exc \in RequestExceptions THEN "network" ELSE "propagate"

\* The except clauses of lines 118-121: which one takes the exception.
ExceptClause(exc) ==
    IF exc \in RequestExceptions THEN "network"
    ELSE IF exc \in Exceptions THEN "unexpected"
    ELSE "propagate"

\* SleepsAfter sleeping after every failed attempt, the last one too
SleepsAfter_Always(att, count) == TRUE

\* the condition of line 123
SleepsAfter(att, count) == att < count - 1

\* the argument of time.sleep, line 124
BackoffSeconds == 5

\* ExhaustedResult handing the last logged message on
ExhaustedResult_LastObserved(observed) ==
    FlareSolverrResult(FALSE, "None", << >>, "None", observed)

\* the result of line 126
ExhaustedResult(observed) ==
    FlareSolverrResult(FALSE, "None", << >>, "None", "Max retries exceeded")

\* One pass of the loop body, lines 93-121: post, then the try body and handlers.
SolverAttempt ==
    /\ sol_pc = "for"
    /\ attempt < retry_count
    /\ \E resp \in Responses :
         LET r == TryBody(resp) IN
         /\ sol_requests' = sol_requests + 1
         /\ sol_last' = resp
         /\ IF r.outcome = "return"
            THEN /\ sol_pc' = "done"
                 /\ sol_result' = r.result
                 /\ sol_observed' = sol_observed
            ELSE IF r.outcome = "raise" /\ ExceptClause(r.exc) = "propagate"
            THEN /\ sol_pc' = "raised"
                 /\ sol_result' = sol_result
                 /\ sol_observed' = sol_observed
            ELSE /\ sol_pc' = "backoff"
                 /\ sol_result' = sol_result
                 /\ sol_observed' = r.msg
    /\ UNCHANGED <<attempt, sol_delays, config_vars, resolver_vars, dd_vars, fs_vars, now, monitor_vars>>

\* Lines 123-124 and the step of the for loop.
SolverBackoff ==
    /\ sol_pc = "backoff"
    /\ sol_delays' = IF SleepsAfter(attempt, retry_count)
                     THEN Append(sol_delays, BackoffSeconds)
                     ELSE sol_delays
    /\ attempt' = attempt + 1
    /\ sol_pc' = "for"
    /\ UNCHANGED <<sol_result, sol_requests, sol_observed, sol_last, config_vars, resolver_vars, dd_vars,
                   fs_vars, now, monitor_vars>>

\* The loop is over: line 126.
SolverExhausted ==
    /\ sol_pc = "for"
    /\ attempt >= retry_count
    /\ sol_result' = ExhaustedResult(sol_observed)
    /\ sol_pc' = "done"
    /\ UNCHANGED <<attempt, sol_requests, sol_delays, sol_observed, sol_last,
                   config_vars, resolver_vars, dd_vars, fs_vars, now, monitor_vars>>

\* the locals of a call of get_flaresolverr_solution that has just started
SolverStart ==
    /\ sol_pc = "for"
    /\ attempt = 0
    /\ sol_result = NoResult
    /\ sol_requests = 0
    /\ sol_delays = << >>
    /\ sol_observed = "none"
    /\ sol_last = NoResponse

-----------------------------------------------------------------------------
(* The download directory, written by the browser's download subsystem *)

\* class constants, lines 57-58
TEMP_EXTENSIONS == {".crdownload", ".part", ".tmp"}

DEMO_EXTENSIONS == {".rar", ".zip", ".dem", ".7z"}

Absent == -1

\* the file the browser downloads: under its temporary name, then renamed
TempName == <<"demo123", ".rar", ".crdownload">>

FinalName == <<"demo123", ".rar">>

\* entries that may be in the directory before the acquisition starts
OldLeftover == <<"old_leftover", ".rar">>

StaleTemp == <<"other", ".tmp">>

Notes == <<"notes", ".txt">>

BackupDir == <<"backup", ".zip">>

Leftovers == {OldLeftover, StaleTemp, Notes, BackupDir}

Names == Leftovers \cup {TempName, FinalName}

\* the entries that are directories, not regular files
Directories == {BackupDir}

NoFile == << >>

Present(d) == {n \in Names : d[n] # Absent}

\* The browser transfers a file only while its session is open and after it
\* was sent to a URL with a path (the target page or the resolved download
\* URL, not the bare origin of _set_cookies); when monitor_download is
\* exercised on its own the browser is taken as running.
BrowserDownloads ==
    \/ dd_pc = "standalone"
    \/ /\ driver.state = "open"
       /\ \E k \in 1 .. Len(driver_log) :
            /\ driver_log[k].op = "get"
            /\ Len(driver_log[k].arg) > 1
            /\ driver_log[k].ok

\* The browser starts writing the download: under the temporary name, or
\* directly under the final name.
DownloadBegin ==
    /\ BrowserDownloads
    /\ dl_state = "none"
    /\ \E mode \in {"temp", "direct"} :
         /\ dl_state' = mode
         /\ dir' = [dir EXCEPT ![IF mode = "temp" THEN TempName ELSE FinalName] = 0]
    /\ UNCHANGED <<renamed_at, polling_at_rename, now, config_vars, resolver_vars, dd_vars, solver_vars, monitor_vars>>

\* The browser writes more bytes.
DownloadGrow ==
    /\ BrowserDownloads
    /\ dl_state \in {"temp", "direct"}
    /\ LET f == IF dl_state = "temp" THEN TempName ELSE FinalName IN
         /\ dir[f] < MaxSize
         /\ dir' = [dir EXCEPT ![f] = dir[f] + 1]
    /\ UNCHANGED <<dl_state, renamed_at, polling_at_rename, now, config_vars, resolver_vars, dd_vars, solver_vars, monitor_vars>>

\* The browser completes the download: the temporary name is renamed to the
\* final name, the size unchanged; a direct download just stops growing.
DownloadFinish ==
    /\ BrowserDownloads
    /\ dl_state \in {"temp", "direct"}
    /\ IF dl_state = "temp"
       THEN /\ dir' = [dir EXCEPT ![TempName] = Absent, ![FinalName] = dir[TempName]]
            /\ renamed_at' = now
            /\ polling_at_rename' = (mon_pc \in {"while", "stat", "sleep"})
       ELSE /\ dir' = dir
            /\ UNCHANGED <<renamed_at, polling_at_rename>>
    /\ dl_state' = "complete"
    /\ UNCHANGED <<now, config_vars, resolver_vars, dd_vars, solver_vars, monitor_vars>>

\* The browser gives the download up and deletes the temporary file.
DownloadCancel ==
    /\ BrowserDownloads
    /\ dl_state = "temp"
    /\ dir' = [dir EXCEPT ![TempName] = Absent]
    /\ dl_state' = "cancelled"
    /\ UNCHANGED <<renamed_at, polling_at_rename, now, config_vars, resolver_vars, dd_vars, solver_vars, monitor_vars>>

\* a directory as an acquisition may find it: any of the entries in leftovers
\* from earlier runs, no download yet
DirInit(leftovers) ==
    /\ \E old \in SUBSET leftovers :
         dir = [n \in Names |-> IF n \in old THEN 1 ELSE Absent]
    /\ dl_state = "none"
    /\ renamed_at = -1
    /\ polling_at_rename = FALSE

-----------------------------------------------------------------------------
(* monitor_download *)

\* str.endswith(ext), on names split into parts
EndsWith(name, ext) == Len(name) > 0 /\ name[Len(name)] = ext

\* any(name.endswith(ext) for ext in exts)
EndsWithAny(name, exts) == \E ext \in exts : EndsWith(name, ext)

\* sub in name
Contains(sub, name) ==
    \E i \in 0 .. (Len(name) - Len(sub)) : SubSeq(name, i + 1, i + Len(sub)) = sub

\* Path.is_file()
IsFile(d, name) == d[name] # Absent /\ name \notin Directories

\* One pass of the body of the for loop, lines 267-280, on file_path with cur
\* the current monitored_file: the new monitored_file and whether the loop breaks.
LoopBody(d, expected, file_path, cur) ==
    IF ~IsFile(d, file_path) THEN [file |-> cur, brk |-> FALSE]
    ELSE IF expected # NoFile /\ Contains(expected, file_path)
    THEN [file |-> file_path, brk |-> TRUE]
    ELSE IF EndsWithAny(file_path, TEMP_EXTENSIONS)
    THEN [file |-> file_path, brk |-> TRUE]
    ELSE IF EndsWithAny(file_path, DEMO_EXTENSIONS)
    THEN [file |-> file_path, brk |-> FALSE]
    ELSE [file |-> cur, brk |-> FALSE]

\* The for loop of lines 266-280 over files from index i on.
RECURSIVE ForLoop(_, _, _, _, _)
ForLoop(d, expected, files, i, cur) ==
    IF i > Len(files) THEN cur
    ELSE LET r == LoopBody(d, expected, files[i], cur) IN
         IF r.brk THEN r.file ELSE ForLoop(d, expected, files, i + 1, r.file)

\* the orders in which glob("*") may list the entries in s
Orders(s) ==
    {f \in [1 .. Cardinality(s) -> s] : \A i, j \in 1 .. Cardinality(s) : i # j => f[i] # f[j]}

\* StillDownloading knowing only Chrome's marker
StillDownloading_CrdownloadOnly(path) == EndsWith(path, ".crdownload")

\* the condition of line 297
StillDownloading(path) == EndsWithAny(path, TEMP_EXTENSIONS)

\* the condition of line 262
WithinTimeout(t, start) == t - start < DownloadTimeout

NoBar == [exists |-> FALSE, n |-> 0, closed |-> FALSE]

\* The test "if pbar:" of lines 311 and 320.  None is false.  A tqdm object
\* made with total=None and no iterable (lines 288-294) has no truth value:
\* tqdm.__bool__ raises TypeError("bool() undefined when iterable == total
\* == None").
PbarTest(bar) == IF ~bar.exists THEN "false" ELSE "TypeError"

\* Lines 262-282: the loop condition holds; list the directory and run the
\* for loop over the listing, in whatever order glob yields it.
MonitorEnumerate ==
    /\ mon_pc = "while"
    /\ WithinTimeout(now, start_time)
    /\ \E files \in Orders(Present(dir)) :
         monitored_file' = ForLoop(dir, expected_filename, files, 1, monitored_file)
    /\ mon_pc' = IF monitored_file' # NoFile THEN "stat" ELSE "sleep"
    /\ last_stat' = "none"
    /\ UNCHANGED <<expected_filename, start_time, pbar, last_size, mon_result,
                   now, fs_vars, config_vars, resolver_vars, dd_vars, solver_vars>>

\* Lines 283-306: stat() succeeds.
MonitorStat ==
    /\ mon_pc = "stat"
    /\ dir[monitored_file] # Absent
    /\ LET file_size == dir[monitored_file]
           bar == IF pbar.exists THEN pbar ELSE [exists |-> TRUE, n |-> 0, closed |-> FALSE]
       IN
       IF StillDownloading(monitored_file)
       THEN /\ pbar' = [bar EXCEPT !.n = bar.n + (file_size - last_size)]
            /\ last_size' = file_size
            /\ mon_pc' = "sleep"
            /\ mon_result' = mon_result
       ELSE /\ pbar' = [bar EXCEPT !.n = file_size, !.closed = TRUE]
            /\ last_size' = last_size
            /\ mon_pc' = "done"
            /\ mon_result' = monitored_file
    /\ last_stat' = "ok"
    /\ UNCHANGED <<expected_filename, start_time, monitored_file, now, fs_vars, config_vars, resolver_vars, dd_vars, solver_vars>>

\* Lines 308-314: the file is gone, stat() raises FileNotFoundError.  Line 310
\* runs, then the test of line 311: with no progress bar the tracking state is
\* reset; with one, the test raises inside the handler and the TypeError
\* leaves monitor_download.
MonitorFileNotFound ==
    /\ mon_pc = "stat"
    /\ dir[monitored_file] = Absent
    /\ last_size' = 0
    /\ last_stat' = "missing"
    /\ IF PbarTest(pbar) = "false"
       THEN /\ pbar' = NoBar
            /\ monitored_file' = NoFile
            /\ mon_pc' = "sleep"
       ELSE /\ UNCHANGED <<pbar, monitored_file>>
            /\ mon_pc' = "raised"
    /\ UNCHANGED <<expected_filename, start_time, mon_result,
                   now, fs_vars, config_vars, resolver_vars, dd_vars, solver_vars>>

\* Lines 315-316: stat() raises another error (permission denied), only logged.
MonitorStatError ==
    /\ mon_pc = "stat"
    /\ dir[monitored_file] # Absent
    /\ last_stat' = "error"
    /\ mon_pc' = "sleep"
    /\ UNCHANGED <<expected_filename, start_time, pbar, last_size, monitored_file,
                   mon_result, now, fs_vars, config_vars, resolver_vars, dd_vars,
                   solver_vars>>

\* Line 318.
MonitorSleep ==
    /\ mon_pc = "sleep"
    /\ now' = now + PollInterval
    /\ mon_pc' = "while"
    /\ UNCHANGED <<expected_filename, start_time, pbar, last_size, monitored_file,
                   mon_result, last_stat, fs_vars,
                   config_vars, resolver_vars, dd_vars, solver_vars>>

\* Lines 320-323: the loop condition fails.  With no progress bar None is
\* returned; with one, the test of line 320 raises and the TypeError leaves
\* monitor_download.
MonitorTimeout ==
    /\ mon_pc = "while"
    /\ ~WithinTimeout(now, start_time)
    /\ mon_pc' = IF PbarTest(pbar) = "false" THEN "done" ELSE "raised"
    /\ mon_result' = IF PbarTest(pbar) = "false" THEN NoFile ELSE mon_result
    /\ UNCHANGED <<expected_filename, start_time, pbar, last_size, monitored_file,
                   last_stat, now, fs_vars, config_vars, resolver_vars, dd_vars,
                   solver_vars>>

\* the locals of a call of monitor_download that has reached line 262
MonitorStart(expected) ==
    /\ mon_pc = "while"
    /\ expected_filename = expected
    /\ start_time = now
    /\ pbar = NoBar
    /\ last_size = 0
    /\ monitored_file = NoFile
    /\ mon_result = NoFile
    /\ last_stat = "none"

\* no call of monitor_download
MonitorIdle ==
    /\ mon_pc = "idle"
    /\ expected_filename = NoFile
    /\ start_time = 0
    /\ pbar = NoBar
    /\ last_size = 0
    /\ monitored_file = NoFile
    /\ mon_result = NoFile
    /\ last_stat = "none"

\* no call of get_flaresolverr_solution
SolverIdle ==
    /\ sol_pc = "idle"
    /\ attempt = 0
    /\ sol_result = NoResult
    /\ sol_requests = 0
    /\ sol_delays = << >>
    /\ sol_observed = "none"
    /\ sol_last = NoResponse

-----------------------------------------------------------------------------
(* _find_download_url_from_html and _extract_filename_from_url *)

\* the page download_demo is asked for (line 402)
PageUrl == <<"https://www.hltv.org", "/", "download", "/", "demo", "/", "98547">>

\* the parts of a URL that are a scheme and host
Origins == {"https://www.hltv.org", "https://cdn.example"}

\* str.lower(), on the parts of a refresh directive
Lower(part) == IF part \in {"url=", "URL=", "Url="} THEN "url=" ELSE part

\* "url=" in content.lower()   (line 138)
HasUrlMarker(content) == \E k \in 1 .. Len(content) : Lower(content[k]) = "url="

\* content.split("url=")[-1]   (line 139): what follows the last "url=", the
\* whole content when there is no "url=" in this very spelling
SplitLast(content) ==
    LET at == {k \in 1 .. Len(content) : content[k] = "url="} IN
    IF at = {} THEN content
    ELSE SubSeq(content, (CHOOSE k \in at : \A j \in at : j <= k) + 1, Len(content))

\* str.strip()
RECURSIVE Strip(_)
Strip(str) ==
    IF str = << >> THEN str
    ELSE IF Head(str) = " " THEN Strip(Tail(str))
    ELSE IF str[Len(str)] = " " THEN Strip(SubSeq(str, 1, Len(str) - 1))
    ELSE str

\* os.path.basename(urlparse(url).path), None when it is empty  (lines 166-174)
ExtractFilenameFromUrl(url) ==
    LET path == IF url # << >> /\ Head(url) \in Origins THEN Tail(url) ELSE url
        slashes == {k \in 1 .. Len(path) : path[k] = "/"}
        last == IF slashes = {} THEN 0 ELSE CHOOSE k \in slashes : \A j \in slashes : j <= k
    IN SubSeq(path, last + 1, Len(path))

\* the forms of assignment each regular expression of lines 149-151 matches:
\* the third also matches inside "window.location.href = ..."
Patterns == << {"window.location"}, {"window.location.href"},
               {"window.location.href", "location.href"} >>

\* "window.location" in script.string   (line 147)
MentionsWindowLocation(script) ==
    \E k \in 1 .. Len(script) : script[k].form \in {"window.location", "window.location.href"}

\* re.search(pattern, script.string).group(1): the target of the first
\* statement the pattern matches, << >> when there is no match  (line 155)
Search(pattern, script) ==
    LET hits == {k \in 1 .. Len(script) : script[k].form \in pattern} IN
    IF hits = {} THEN << >>
    ELSE script[CHOOSE k \in hits : \A j \in hits : k <= j].target

\* the loop over patterns, lines 154-160, from pattern p on
RECURSIVE PatternLoop(_, _)
PatternLoop(script, p) ==
    IF p > Len(Patterns) THEN << >>
    ELSE LET target == Search(Patterns[p], script) IN
         IF target # << >> /\ EndsWithAny(target, DEMO_EXTENSIONS) THEN target
         ELSE PatternLoop(script, p + 1)

\* the loop over scripts, lines 146-162, from script s on
RECURSIVE ScriptLoop(_, _)
ScriptLoop(scripts, s) ==
    IF s > Len(scripts) THEN << >>
    ELSE LET found == IF scripts[s] # << >> /\ MentionsWindowLocation(scripts[s])
                      THEN PatternLoop(scripts[s], 1) ELSE << >> IN
         IF found # << >> THEN found ELSE ScriptLoop(scripts, s + 1)

\* lines 134-141: the URL of the meta-refresh tag, << >> when there is none
MetaRefreshUrl(markup) ==
    IF markup.meta # << >> /\ HasUrlMarker(markup.meta)
    THEN Strip(SplitLast(markup.meta)) ELSE << >>

\* _find_download_url_from_html  (lines 128-164)
FindDownloadUrlFromHtml(markup) ==
    LET meta_url == MetaRefreshUrl(markup)
        download_url == IF meta_url # << >> THEN meta_url ELSE ScriptLoop(markup.scripts, 1)
    IN [download_url |-> download_url,
        expected_filename |-> IF download_url = << >> THEN << >>
                              ELSE ExtractFilenameFromUrl(download_url)]

\* the download URL the site serves
CdnUrl == <<"https://cdn.example", "/", "demo123", ".rar">>

\* pages the browser may show download_demo: no redirect, a meta refresh, a
\* script redirect with a relative target
PageSources ==
    { [meta |-> << >>, scripts |-> << >>],
      [meta |-> <<"5;", "url=">> \o CdnUrl, scripts |-> << >>],
      [meta |-> << >>,
       scripts |-> << << [form |-> "window.location.href",
                          target |-> <<"/", "files", "/", "demo123", ".rar">>] >> >>] }

\* no call of _find_download_url_from_html
NoMarkup == [meta |-> << >>, scripts |-> << >>]

ResolverIdle ==
    /\ res_html = NoMarkup
    /\ res_pc = "idle"
    /\ res_s = 0
    /\ res_url = << >>
    /\ res_filename = << >>

\* Lines 134-141: the meta-refresh tag.
ResolverMeta ==
    /\ res_pc = "meta"
    /\ res_url' = MetaRefreshUrl(res_html)
    /\ res_filename' = IF res_url' = << >> THEN << >>
                       ELSE ExtractFilenameFromUrl(res_url')
    /\ res_pc' = IF res_url' = << >> THEN "scripts" ELSE "return"
    /\ res_s' = 1
    /\ UNCHANGED <<res_html, config_vars, solver_vars, fs_vars, now, monitor_vars, dd_vars>>

\* Lines 146-162: one pass of the loop over the scripts.
ResolverScript ==
    /\ res_pc = "scripts"
    /\ res_s <= Len(res_html.scripts)
    /\ LET script == res_html.scripts[res_s]
           found == IF script # << >> /\ MentionsWindowLocation(script)
                    THEN PatternLoop(script, 1) ELSE << >>
       IN IF found # << >>
          THEN /\ res_url' = found
               /\ res_filename' = ExtractFilenameFromUrl(found)
               /\ res_pc' = "return"
               /\ res_s' = res_s
          ELSE /\ res_s' = res_s + 1
               /\ UNCHANGED <<res_url, res_filename, res_pc>>
    /\ UNCHANGED <<res_html, config_vars, solver_vars, fs_vars, now, monitor_vars, dd_vars>>

\* Line 164, reached from line 144 or when the loop of line 146 is exhausted.
ResolverReturn ==
    /\ \/ res_pc = "return"
       \/ res_pc = "scripts" /\ res_s > Len(res_html.scripts)
    /\ res_pc' = "done"
    /\ UNCHANGED <<res_html, res_s, res_url, res_filename, config_vars,
                   solver_vars, fs_vars, now, monitor_vars, dd_vars>>

-----------------------------------------------------------------------------
(* _setup_driver and _set_cookies *)

DEFAULT_USER_AGENT == "default-agent"

\* driver.set_page_load_timeout(30), driver.set_script_timeout(30)
SessionTimeout == 30

NoDriver == [state |-> "none", variant |-> "none", user_agent |-> "None",
             page_load_timeout |-> 0, script_timeout |-> 0]

NewDriver(variant, user_agent) ==
    [state |-> "open", variant |-> variant, user_agent |-> user_agent,
     page_load_timeout |-> 0, script_timeout |-> 0]

\* a call made on the session or to construct it: its argument (a URL, a
\* cookie name, ...) as a sequence of parts, and whether it returned (TRUE)
\* or raised (FALSE)
Call(op, arg, ok) == [op |-> op, arg |-> arg, ok |-> ok]

\* SetupDriver with no fallback: the stealth constructor's error is propagated
SetupDriver_NoFallback(undetected, user_agent, stealth_ok, regular_ok) ==
    LET effective_user_agent == IF user_agent # "None" THEN user_agent
                                ELSE DEFAULT_USER_AGENT IN
    IF undetected
    THEN IF stealth_ok
         THEN [outcome |-> "configure", driver |-> NewDriver("stealth", effective_user_agent),
               calls |-> <<Call("uc.Chrome", << >>, TRUE)>>]
         ELSE [outcome |-> "raise", driver |-> NoDriver,
               calls |-> <<Call("uc.Chrome", << >>, FALSE)>>]
    ELSE [outcome |-> IF regular_ok THEN "configure" ELSE "raise",
          driver |-> IF regular_ok THEN NewDriver("regular", effective_user_agent) ELSE NoDriver,
          calls |-> <<Call("webdriver.Chrome", << >>, regular_ok)>>]

\* Lines 178-197 of _setup_driver, given whether each constructor succeeds.
\* "configure": go on to lines 199-201; "return": line 195 returns the
\* fallback session at once; "raise": the constructor's error leaves
\* _setup_driver.  calls: the constructors called, uc.Chrome of line 191 and
\* webdriver.Chrome of line 230.
SetupDriver(undetected, user_agent, stealth_ok, regular_ok) ==
    LET effective_user_agent == IF user_agent # "None" THEN user_agent
                                ELSE DEFAULT_USER_AGENT IN
    IF undetected
    THEN IF stealth_ok
         THEN [outcome |-> "configure", driver |-> NewDriver("stealth", effective_user_agent),
               calls |-> <<Call("uc.Chrome", << >>, TRUE)>>]
         ELSE IF regular_ok
         THEN [outcome |-> "return", driver |-> NewDriver("regular", effective_user_agent),
               calls |-> <<Call("uc.Chrome", << >>, FALSE),
                           Call("webdriver.Chrome", << >>, TRUE)>>]
         ELSE [outcome |-> "raise", driver |-> NoDriver,
               calls |-> <<Call("uc.Chrome", << >>, FALSE),
                           Call("webdriver.Chrome", << >>, FALSE)>>]
    ELSE IF regular_ok
         THEN [outcome |-> "configure", driver |-> NewDriver("regular", effective_user_agent),
               calls |-> <<Call("webdriver.Chrome", << >>, TRUE)>>]
         ELSE [outcome |-> "raise", driver |-> NoDriver,
               calls |-> <<Call("webdriver.Chrome", << >>, FALSE)>>]

\* f"{parsed_url.scheme}://{parsed_url.netloc}", line 236
BaseDomain(base_url) == <<Head(base_url)>>

\* the add_cookie calls of lines 239-248 from cookie k on; a rejected cookie
\* is logged by line 248 and the loop goes on
RECURSIVE AddCookies(_, _, _)
AddCookies(cookies, rejected, k) ==
    IF k > Len(cookies) THEN << >>
    ELSE <<Call("add_cookie", <<cookies[k]>>, k \notin rejected)>>
         \o AddCookies(cookies, rejected, k + 1)

\* SetCookies giving up at the first rejected cookie
SetCookies_StopAtRejected(cookies, base_url, origin_ok, rejected) ==
    LET stop == IF rejected = {} THEN Len(cookies)
                ELSE CHOOSE k \in rejected : \A j \in rejected : k <= j
    IN <<Call("get", <<Head(base_url)>>, origin_ok)>>
       \o (IF origin_ok
           THEN [k \in 1 .. stop |-> Call("add_cookie", <<cookies[k]>>, k \notin rejected)]
           ELSE << >>)

\* _set_cookies (lines 232-252): the calls it makes on the session; when the
\* navigation to the origin raises, line 251 takes the error and no cookie is set
SetCookies(cookies, base_url, origin_ok, rejected) ==
    <<Call("get", BaseDomain(base_url), origin_ok)>>
    \o (IF origin_ok THEN AddCookies(cookies, rejected, 1) ELSE << >>)

-----------------------------------------------------------------------------
(* download_demo *)

\* the exceptions the session's calls raise
DriverExceptions == {"TimeoutException", "WebDriverException"}

\* The except clauses of lines 374-382: which one takes the exception.
DDExceptClause(exc) ==
    IF exc = "TimeoutException" THEN "timeout"
    ELSE IF exc \in DriverExceptions THEN "webdriver"
    ELSE "unexpected"

\* Handle logging the error and going on to monitor_download
Handle_GoesOn(exc) ==
    /\ dd_result' = NoFile
    /\ dd_exc' = "none"
    /\ dd_pc' = "monitor"

\* an exception raised inside the try block of lines 340-372: the handler
\* returns None and the finally clause follows
Handle(exc) ==
    /\ dd_result' = NoFile
    /\ dd_exc' = IF DDExceptClause(exc) = "propagate" THEN exc ELSE "none"
    /\ dd_pc' = "finally"

\* AbortsWithoutBypass never giving up
AbortsWithoutBypass_Never(success, undetected) == FALSE

\* the condition of line 332
AbortsWithoutBypass(success, undetected) == ~success /\ ~undetected

\* Lines 330-337: the solver has returned.
DDSolved ==
    /\ dd_pc = "solving"
    /\ sol_pc \in {"done", "raised"}
    /\ IF sol_pc = "raised"
       THEN /\ dd_pc' = "raised"
            /\ dd_exc' = "Exception"
            /\ flaresolverr_result' = flaresolverr_result
       ELSE /\ flaresolverr_result' = sol_result
            /\ dd_pc' = IF AbortsWithoutBypass(sol_result.success, use_undetected)
                        THEN "returned" ELSE "setup_driver"
            /\ dd_exc' = dd_exc
    /\ sol_pc' = "idle"
    /\ attempt' = 0
    /\ sol_result' = NoResult
    /\ sol_requests' = 0
    /\ sol_delays' = << >>
    /\ sol_observed' = "none"
    /\ sol_last' = NoResponse
    /\ UNCHANGED <<driver, driver_log, dd_result, config_vars, resolver_vars, fs_vars, now, monitor_vars>>

\* Line 338 up to the end of the constructors, lines 178-197.
DDSetupDriver ==
    /\ dd_pc = "setup_driver"
    /\ \E stealth_ok, regular_ok \in BOOLEAN :
         LET user_agent == IF flaresolverr_result.success
                           THEN flaresolverr_result.user_agent ELSE "None"
             r == SetupDriver(use_undetected, user_agent, stealth_ok, regular_ok)
         IN /\ driver' = r.driver
            /\ driver_log' = driver_log \o r.calls
            /\ dd_pc' = CASE r.outcome = "configure" -> "set_timeouts"
                          [] r.outcome = "return" -> "set_cookies"
                          [] OTHER -> "raised"
            /\ dd_exc' = IF r.outcome = "raise" THEN "WebDriverException" ELSE dd_exc
    /\ UNCHANGED <<flaresolverr_result, dd_result, config_vars, resolver_vars,
                   solver_vars, fs_vars, now, monitor_vars>>

\* Lines 199-201: the timeouts of the session; a call that raises leaves
\* _setup_driver and, line 338 being outside the try block, download_demo.
DDSetTimeouts ==
    /\ dd_pc = "set_timeouts"
    /\ \E ok \in BOOLEAN :
         IF ok
         THEN /\ driver' = [driver EXCEPT !.page_load_timeout = SessionTimeout,
                                          !.script_timeout = SessionTimeout]
              /\ dd_pc' = "set_cookies"
              /\ dd_exc' = dd_exc
         ELSE /\ driver' = driver
              /\ dd_pc' = "raised"
              /\ dd_exc' = "WebDriverException"
    /\ UNCHANGED <<flaresolverr_result, driver_log, dd_result, config_vars, resolver_vars,
                   solver_vars, fs_vars, now, monitor_vars>>

\* Lines 342-343.
DDSetCookies ==
    /\ dd_pc = "set_cookies"
    /\ IF flaresolverr_result.success /\ flaresolverr_result.cookies # << >>
       THEN \E origin_ok \in BOOLEAN :
              \E rejected \in SUBSET (1 .. Len(flaresolverr_result.cookies)) :
                 driver_log' = driver_log
                    \o SetCookies(flaresolverr_result.cookies, PageUrl, origin_ok, rejected)
       ELSE driver_log' = driver_log
    /\ dd_pc' = "navigate"
    /\ UNCHANGED <<flaresolverr_result, driver, dd_result, dd_exc, config_vars, resolver_vars,
                   solver_vars, fs_vars, now, monitor_vars>>

\* Line 347.
DDNavigate ==
    /\ dd_pc = "navigate"
    /\ \E out \in {"ok"} \cup DriverExceptions :
         /\ driver_log' = Append(driver_log, Call("get", PageUrl, out = "ok"))
         /\ IF out = "ok"
            THEN /\ dd_pc' = "wait_body"
                 /\ UNCHANGED <<dd_result, dd_exc>>
            ELSE Handle(out)
    /\ UNCHANGED <<flaresolverr_result, driver, config_vars, resolver_vars, solver_vars, fs_vars,
                   now, monitor_vars>>

\* Lines 350-355.
DDWaitBody ==
    /\ dd_pc = "wait_body"
    /\ \E out \in {"ok", "TimeoutException"} :
         /\ driver_log' = Append(driver_log, Call("wait", <<"body">>, out = "ok"))
         /\ IF out = "ok"
            THEN /\ dd_pc' = "resolve"
                 /\ UNCHANGED <<dd_result, dd_exc>>
            ELSE Handle(out)
    /\ UNCHANGED <<flaresolverr_result, driver, config_vars, resolver_vars, solver_vars, fs_vars,
                   now, monitor_vars>>

\* urljoin(url, download_url), line 364
Urljoin(base, rel) ==
    IF Head(rel) = "/" THEN <<Head(base)>> \o rel
    ELSE SubSeq(base, 1, Len(base) - 1) \o rel

\* download_url.startswith('http'), line 363
StartsWithHttp(url) == Head(url) \in Origins

\* lines 363-364: the URL line 365 navigates to
ResolvedTarget(url, download_url) ==
    IF StartsWithHttp(download_url) THEN download_url ELSE Urljoin(url, download_url)

\* Lines 358-366: read the page, resolve the redirect, follow it.
DDResolve ==
    /\ dd_pc = "resolve"
    /\ \/ \E markup \in PageSources :
            LET found == FindDownloadUrlFromHtml(markup) IN
            /\ expected_filename' = found.expected_filename
            /\ IF found.download_url # << >>
               THEN \E out \in {"ok"} \cup DriverExceptions :
                      /\ driver_log' = driver_log
                            \o <<Call("page_source", << >>, TRUE),
                                 Call("get", ResolvedTarget(PageUrl, found.download_url), out = "ok")>>
                      /\ IF out = "ok"
                         THEN /\ dd_pc' = "monitor"
                              /\ UNCHANGED <<dd_result, dd_exc>>
                         ELSE Handle(out)
               ELSE /\ driver_log' = Append(driver_log, Call("page_source", << >>, TRUE))
                    /\ dd_pc' = "monitor"
                    /\ UNCHANGED <<dd_result, dd_exc>>
       \/ /\ driver_log' = Append(driver_log, Call("page_source", << >>, FALSE))
          /\ expected_filename' = expected_filename
          /\ Handle("WebDriverException")
    /\ UNCHANGED <<flaresolverr_result, driver, config_vars, resolver_vars, solver_vars, fs_vars, now,
                   mon_pc, start_time, pbar, last_size, monitored_file, mon_result,
                   last_stat>>

\* Line 370, up to line 262: monitor_download is entered.
DDMonitorCall ==
    /\ dd_pc = "monitor"
    /\ dd_pc' = "monitoring"
    /\ mon_pc' = "while"
    /\ start_time' = now
    /\ UNCHANGED <<expected_filename, pbar, last_size, monitored_file, mon_result,
                   last_stat, flaresolverr_result, driver,
                   driver_log, dd_result, dd_exc, config_vars, resolver_vars, solver_vars, fs_vars, now>>

\* Lines 370-372: monitor_download has returned, or has raised and one of the
\* except clauses takes the error.
DDMonitorReturn ==
    /\ dd_pc = "monitoring"
    /\ mon_pc \in {"done", "raised"}
    /\ IF mon_pc = "done"
       THEN /\ dd_result' = mon_result
            /\ dd_pc' = "finally"
            /\ dd_exc' = dd_exc
       ELSE Handle("TypeError")
    /\ UNCHANGED <<flaresolverr_result, driver, driver_log, config_vars, resolver_vars,
                   solver_vars, fs_vars, now, monitor_vars>>

\* Lines 383-387: driver.quit(), whose own error is logged and dropped.
DDFinally ==
    /\ dd_pc = "finally"
    /\ \E quit_ok \in BOOLEAN :
         /\ driver' = [driver EXCEPT !.state = IF quit_ok THEN "quit" ELSE "quit_error"]
         /\ driver_log' = Append(driver_log, Call("quit", << >>, quit_ok))
    /\ dd_pc' = IF dd_exc = "none" THEN "returned" ELSE "raised"
    /\ UNCHANGED <<flaresolverr_result, dd_result, dd_exc, config_vars, resolver_vars, solver_vars,
                   fs_vars, now, monitor_vars>>

\* download_demo is not running: its locals stay as they are
DDStandalone ==
    /\ dd_pc = "standalone"
    /\ flaresolverr_result = NoResult
    /\ driver = NoDriver
    /\ driver_log = << >>
    /\ dd_result = NoFile
    /\ dd_exc = "none"

-----------------------------------------------------------------------------
(* get_flaresolverr_solution called on its own *)

SolverInit ==
    /\ retry_count \in 0 .. MaxRetryCount
    /\ use_undetected \in BOOLEAN
    /\ SolverStart
    /\ DirInit({})
    /\ now = 0
    /\ MonitorIdle
    /\ DDStandalone
    /\ ResolverIdle

SolverNext == SolverAttempt \/ SolverBackoff \/ SolverExhausted

SolverSpec == SolverInit /\ [][SolverNext]_vars

-----------------------------------------------------------------------------
(* monitor_download called on its own, while the browser downloads *)

MonitorInit ==
    /\ retry_count = MaxRetryCount
    /\ use_undetected = FALSE
    /\ SolverIdle
    /\ DirInit(Leftovers)
    /\ now = 0
    /\ \E e \in {NoFile, FinalName} : MonitorStart(e)
    /\ DDStandalone
    /\ ResolverIdle

MonitorNext ==
    \/ MonitorEnumerate
    \/ MonitorStat
    \/ MonitorFileNotFound
    \/ MonitorStatError
    \/ MonitorSleep
    \/ MonitorTimeout
    \/ DownloadBegin
    \/ DownloadGrow
    \/ DownloadFinish
    \/ DownloadCancel

MonitorSpec == MonitorInit /\ [][MonitorNext]_vars

\* the same call on a download directory that holds nothing but what the
\* browser writes during the call
SoleDownloadInit ==
    /\ retry_count = MaxRetryCount
    /\ use_undetected = FALSE
    /\ SolverIdle
    /\ DirInit({})
    /\ now = 0
    /\ \E e \in {NoFile, FinalName} : MonitorStart(e)
    /\ DDStandalone
    /\ ResolverIdle

SoleDownloadSpec == SoleDownloadInit /\ [][MonitorNext]_vars

-----------------------------------------------------------------------------
(* _find_download_url_from_html called on its own, on every markup *)

MaxStatements == 2

Markers == {"url=", "URL=", "Url="}

\* the content attribute of the meta refresh tag; << >> when there is no tag
Metas ==
    {<< >>, <<"5">>}
    \cup {<<"5;", m>> \o CdnUrl : m \in Markers}
    \cup {<<"5;", m, " ">> \o CdnUrl \o <<" ">> : m \in Markers}
    \cup {<<"0;", m1, "/", "old", ".zip", ";", m2>> \o CdnUrl : m1, m2 \in Markers}

GameDem == <<"https://cdn.example", "/", "game", ".dem">>

ImagePng == <<"https://cdn.example", "/", "image", ".png">>

\* the page-location assignments a script may hold
Statements ==
    [form : {"window.location", "window.location.href", "location.href"},
     target : {GameDem, CdnUrl, ImagePng}]

\* script bodies; << >> is a script element with no string
Scripts == UNION {[1 .. n -> Statements] : n \in 0 .. MaxStatements}

\* the scripts that may follow the first one
TailScripts ==
    { << >>,
      << [form |-> "window.location.href", target |-> GameDem] >>,
      << [form |-> "location.href", target |-> CdnUrl] >> }

Markups ==
    {[meta |-> m, scripts |-> sc] :
        m \in Metas, sc \in {<< >>, << << [form |-> "window.location", target |-> GameDem] >> >>}}
    \cup {[meta |-> << >>, scripts |-> <<s>>] : s \in Scripts}
    \cup {[meta |-> << >>, scripts |-> <<s, t>>] : s \in Scripts, t \in TailScripts}

ResolverInit ==
    /\ retry_count = MaxRetryCount
    /\ use_undetected = FALSE
    /\ SolverIdle
    /\ DirInit({})
    /\ now = 0
    /\ MonitorIdle
    /\ DDStandalone
    /\ res_html \in Markups
    /\ res_pc = "meta"
    /\ res_s = 0
    /\ res_url = << >>
    /\ res_filename = << >>

ResolverNext == ResolverMeta \/ ResolverScript \/ ResolverReturn

ResolverSpec == ResolverInit /\ [][ResolverNext]_vars

-----------------------------------------------------------------------------
(* download_demo: the whole pipeline *)

Init ==
    /\ retry_count = MaxRetryCount
    /\ use_undetected \in BOOLEAN
    /\ SolverStart
    /\ DirInit({OldLeftover, StaleTemp})
    /\ now = 0
    /\ MonitorIdle
    /\ dd_pc = "solving"
    /\ flaresolverr_result = NoResult
    /\ driver = NoDriver
    /\ driver_log = << >>
    /\ dd_result = NoFile
    /\ dd_exc = "none"
    /\ ResolverIdle

Next ==
    \/ SolverAttempt
    \/ SolverBackoff
    \/ SolverExhausted
    \/ DDSolved
    \/ DDSetupDriver
    \/ DDSetTimeouts
    \/ DDSetCookies
    \/ DDNavigate
    \/ DDWaitBody
    \/ DDResolve
    \/ DDMonitorCall
    \/ DDMonitorReturn
    \/ DDFinally
    \/ MonitorEnumerate
    \/ MonitorStat
    \/ MonitorFileNotFound
    \/ MonitorStatError
    \/ MonitorSleep
    \/ MonitorTimeout
    \/ DownloadBegin
    \/ DownloadGrow
    \/ DownloadFinish
    \/ DownloadCancel

Spec == Init /\ [][Next]_vars

-----------------------------------------------------------------------------
(* Properties of get_flaresolverr_solution, checked under SolverSpec *)

\* a response that is HTTP 200 with status "ok" and a payload holding the
\* response markup, the cookie list and the user-agent
FullOk(resp) ==
    /\ resp.kind = "http"
    /\ resp.status_code = 200
    /\ resp.json.valid
    /\ resp.json.status = "ok"
    /\ {"response", "cookies", "userAgent"} \subseteq resp.json.keys

\* C4: when every attempt fails, exactly retry_count requests are sent, one
\* per attempt, and the call returns success = false; no exception leaves it.
C4_AllFailSendsRetryCount ==
    /\ sol_pc # "raised"
    /\ sol_pc = "for" => sol_requests = attempt
    /\ sol_pc = "backoff" => sol_requests = attempt + 1
    /\ (sol_pc = "done" /\ ~sol_result.success) => sol_requests = retry_count

C4_Witness ==
    /\ sol_pc = "done"
    /\ ~sol_result.success
    /\ retry_count >= 2
    /\ sol_requests = retry_count
    /\ sol_last.kind = "raises"

\* C5: success is returned only for, and at once for, an attempt whose
\* response is HTTP 200, status "ok", with markup, cookies and user-agent; no
\* request follows it; any other response is a failed attempt, retried while
\* attempts remain.
C5_SuccessOnlyOnFullOk ==
    /\ (sol_pc = "done" /\ sol_result.success) =>
           FullOk(sol_last) /\ sol_requests = attempt + 1
    /\ (sol_requests > 0 /\ FullOk(sol_last)) =>
           sol_pc = "done" /\ sol_result.success
    /\ (sol_requests > 0 /\ ~FullOk(sol_last)) =>
           /\ sol_pc \in {"backoff", "for", "done"}
           /\ sol_pc = "done" => ~sol_result.success /\ sol_requests = retry_count

C5_Witness ==
    /\ sol_pc = "backoff"
    /\ sol_last.kind = "http"
    /\ sol_last.status_code = 200
    /\ sol_last.json.status = "ok"
    /\ sol_last.json.keys = {"response", "cookies"}
    /\ attempt < retry_count - 1

\* C6 as claimed: after all attempts failed, the failure result carries the
\* error message of the last failed attempt.
C6_CarriesLastObserved ==
    (sol_pc = "done" /\ ~sol_result.success /\ sol_requests > 0) =>
        sol_result.error = sol_observed

\* C6 amended: the failure result carries the fixed message "Max retries
\* exceeded", whatever the attempts observed.
C6_CarriesFixedMessage ==
    (sol_pc = "done" /\ ~sol_result.success) => sol_result.error = "Max retries exceeded"

C6_Witness ==
    /\ sol_pc = "done"
    /\ ~sol_result.success
    /\ sol_requests = retry_count
    /\ sol_observed = "challenge not solved"

-----------------------------------------------------------------------------
(* Properties of monitor_download, checked under MonitorSpec *)

\* monitor_download is over: it has returned or an exception has left it
MonitorOver == mon_pc \in {"done", "raised"}

HasTempMarker(name) ==
    name # << >> /\ name[Len(name)] \in {".crdownload", ".part", ".tmp"}

HasFinalMarker(name) ==
    name # << >> /\ name[Len(name)] \in {".rar", ".zip", ".dem", ".7z"}

\* the regular files in directory d
RegularFiles(d) == {n \in Names : d[n] # Absent /\ n \notin Directories}

\* m is of the highest priority class present in d: expected name, then
\* temporary marker, then final marker
HighestPriority(d, expected, m) ==
    IF \E n \in RegularFiles(d) : expected # << >> /\ Contains(expected, n)
    THEN m # << >> /\ Contains(expected, m)
    ELSE IF \E n \in RegularFiles(d) : HasTempMarker(n)
    THEN HasTempMarker(m)
    ELSE IF \E n \in RegularFiles(d) : HasFinalMarker(n)
    THEN HasFinalMarker(m)
    ELSE TRUE

\* C1: in every poll tick, whatever the files and the order of the listing,
\* the file tracked after the enumeration is the highest-priority candidate
\* present: expected name over temporary marker over final marker.
C1_TracksHighestPriority ==
    [][(mon_pc = "while" /\ mon_pc' \in {"stat", "sleep"}) =>
          HighestPriority(dir, expected_filename, monitored_file')]_vars

\* C2: a path returned as the completed file never ends in .crdownload,
\* .part or .tmp; it is the tracked file, whose size was read in this tick.
C2_NeverReturnsTemp ==
    (mon_pc = "done" /\ mon_result # NoFile) =>
        /\ ~HasTempMarker(mon_result)
        /\ mon_result = monitored_file
        /\ last_stat = "ok"

C2_Witness ==
    /\ mon_pc = "done"
    /\ mon_result = FinalName
    /\ renamed_at # -1
    /\ last_size = 2

\* C3: a file that grew under its temporary name and was renamed to its
\* final name, while monitor_download was polling and at least one poll
\* interval before the timeout, is what monitor_download returns, whatever
\* else is in the directory and whenever within a tick the rename falls.
C3_RenamedInTimeIsReturned ==
    (/\ MonitorOver
     /\ renamed_at # -1
     /\ polling_at_rename
     /\ dir[FinalName] >= 1
     /\ renamed_at + PollInterval <= start_time + DownloadTimeout)
    => (mon_pc = "done" /\ mon_result = FinalName)

-----------------------------------------------------------------------------
(* Properties of download_demo, checked under Spec *)

\* C7: a session download_demo opened is closed (driver.quit() was called)
\* by the time download_demo is left, on every exit path.
C7_SessionClosedOnExit ==
    dd_pc \in {"returned", "raised"} => driver.state # "open"

\* C8: no failure of a step leaves download_demo as an exception; every one
\* becomes a returned outcome.
C8_NoExceptionEscapes == dd_pc # "raised"

\* C9: when the solve failed and use_undetected is false, download_demo
\* returns a failure at once: no session is constructed, nothing is navigated
\* to and monitor_download is not entered.
C9_NoBrowserWithoutBypass ==
    (dd_pc # "solving" /\ ~flaresolverr_result.success /\ ~use_undetected) =>
        /\ dd_pc = "returned"
        /\ dd_result = NoFile
        /\ driver = NoDriver
        /\ driver_log = << >>
        /\ mon_pc = "idle"

C9_Witness ==
    /\ dd_pc = "returned"
    /\ ~use_undetected
    /\ ~flaresolverr_result.success
    /\ flaresolverr_result.error = "Max retries exceeded"
    /\ driver.state = "none"

\* C10: when monitor_download is over with download_timeout elapsed, it has
\* returned, and returned no file, and download_demo then returns that
\* failure with driver.quit() called.
C10_ReturnsNoFileAtTimeout ==
    (MonitorOver /\ now - start_time >= DownloadTimeout) =>
        /\ mon_pc = "done"
        /\ mon_result = NoFile
        /\ dd_pc = "returned" => (dd_result = NoFile /\ driver.state # "open")

-----------------------------------------------------------------------------
(* Completeness of what is returned, checked under Spec *)

\* C11: a file returned by monitor_download, and so by download_demo, is one
\* the browser has finished writing, also when it appeared directly under its
\* final name and was still growing when first observed.
C11_NeverReturnsPartial ==
    /\ (mon_pc = "done" /\ mon_result = FinalName) => dl_state = "complete"
    /\ (dd_pc = "returned" /\ dd_result = FinalName) => dl_state = "complete"

-----------------------------------------------------------------------------
(* Properties of _find_download_url_from_html, checked under ResolverSpec *)

\* what follows the last "url=" marker of content, in whatever letter case
AfterLastMarker(content) ==
    LET at == {k \in 1 .. Len(content) : content[k] \in {"url=", "URL=", "Url="}}
        last == CHOOSE k \in at : \A j \in at : j <= k
    IN SubSeq(content, last + 1, Len(content))

\* the last path segment of a URL
LastSegment(url) ==
    LET slashes == {k \in 1 .. Len(url) : url[k] = "/"}
        last == CHOOSE k \in slashes : \A j \in slashes : j <= k
    IN SubSeq(url, last + 1, Len(url))

\* C12: for a meta-refresh directive holding "url=" in any letter case, the
\* URL returned is the trimmed text after the last marker, and the expected
\* filename is the last path segment of that URL.
C12_MetaRefreshAnyCase ==
    (res_pc = "done" /\ \E k \in 1 .. Len(res_html.meta) :
                           res_html.meta[k] \in {"url=", "URL=", "Url="}) =>
        /\ res_url = Strip(AfterLastMarker(res_html.meta))
        /\ res_filename = LastSegment(res_url)

\* the target of the first assignment of script, from statement k on, that
\* ends in a recognized extension; << >> when there is none
RECURSIVE FirstRecognizedIn(_, _)
FirstRecognizedIn(script, k) ==
    IF k > Len(script) THEN << >>
    ELSE IF HasFinalMarker(script[k].target) THEN script[k].target
    ELSE FirstRecognizedIn(script, k + 1)

\* the same over the scripts in order, from script s on
RECURSIVE FirstRecognized(_, _)
FirstRecognized(scripts, s) ==
    IF s > Len(scripts) THEN << >>
    ELSE IF FirstRecognizedIn(scripts[s], 1) # << >> THEN FirstRecognizedIn(scripts[s], 1)
    ELSE FirstRecognized(scripts, s + 1)

\* C13: with no meta-refresh URL, the URL returned is the target of the first
\* page-location assignment, in script order and in any accepted form, that
\* ends in .rar, .zip, .dem or .7z; no match when there is none.
C13_FirstRecognizedAssignment ==
    (res_pc = "done" /\ res_html.meta = << >>) =>
        res_url = FirstRecognized(res_html.scripts, 1)

-----------------------------------------------------------------------------
(* Properties of _setup_driver and _set_cookies inside download_demo,
   checked under Spec *)

\* the constructor op was called and returned (ok) or raised (~ok)
Constructed(op, ok) ==
    \E k \in 1 .. Len(driver_log) : driver_log[k].op = op /\ driver_log[k].ok = ok

\* C14 as claimed: when the stealth constructor has failed, an ordinary
\* session has been constructed and returned, and download_demo goes on with it.
C14_FallbackAlwaysYieldsSession ==
    Constructed("uc.Chrome", FALSE) =>
        /\ driver.variant = "regular"
        /\ dd_pc # "raised"

\* C14 amended: when the stealth constructor has failed, the ordinary
\* constructor was called next; the session it yields is the one
\* download_demo goes on with, and only its own failure leaves _setup_driver.
C14_FallbackToOrdinary ==
    Constructed("uc.Chrome", FALSE) =>
        /\ Len(driver_log) >= 2
        /\ driver_log[1].op = "uc.Chrome"
        /\ driver_log[2].op = "webdriver.Chrome"
        /\ driver_log[2].ok =>
              /\ driver.variant = "regular"
              /\ driver.state # "none"
              /\ dd_pc \notin {"solving", "setup_driver", "set_timeouts", "raised"}
        /\ ~driver_log[2].ok => (driver = NoDriver /\ dd_pc = "raised")

C14_Witness ==
    /\ Constructed("uc.Chrome", FALSE)
    /\ Constructed("webdriver.Chrome", TRUE)
    /\ driver.variant = "regular"
    /\ dd_pc = "monitoring"
    /\ mon_pc = "stat"

\* the call at position k of driver_log is a failed navigation to the target
\* URL or a failed wait for the body
StepFailedAt(k) ==
    /\ ~driver_log[k].ok
    /\ \/ driver_log[k].op = "wait"
       \/ driver_log[k].op = "get" /\ driver_log[k].arg = PageUrl

\* C15: after a failed navigation to the target URL or a failed wait for the
\* body, the page is not read, no second navigation is made and
\* monitor_download is not entered; nothing but driver.quit() follows, and the
\* outcome is a failure.
C15_FailedStepAborts ==
    \A k \in 1 .. Len(driver_log) :
        StepFailedAt(k) =>
            /\ \A j \in (k + 1) .. Len(driver_log) : driver_log[j].op = "quit"
            /\ mon_pc = "idle"
            /\ dd_pc \in {"finally", "returned"}
            /\ dd_result = NoFile

C15_Witness ==
    /\ dd_pc = "returned"
    /\ \E k \in 1 .. Len(driver_log) : StepFailedAt(k) /\ driver_log[k].op = "wait"
    /\ driver.state = "quit"
    /\ dd_result = NoFile

-----------------------------------------------------------------------------
(* Tolerance of monitor_download to the tracked file vanishing, checked under
   MonitorSpec *)

\* C16: when the tracked file is gone at the size read, monitor_download
\* does not fail: the tracked file is cleared, the last known size is 0 and
\* the progress display is dropped, and the loop goes on to its next tick.
C16_DisappearanceResetsTracking ==
    last_stat = "missing" =>
        /\ mon_pc \in {"sleep", "while", "done"}
        /\ monitored_file = NoFile
        /\ last_size = 0
        /\ pbar = NoBar

-----------------------------------------------------------------------------
(* The timeouts of the session, checked under Spec *)

\* C17: before any navigation is made with a session, its page-load timeout
\* and its script timeout are set to 30 seconds, on every construction path.
C17_TimeoutsSetBeforeNavigation ==
    (\E k \in 1 .. Len(driver_log) : driver_log[k].op = "get") =>
        /\ driver.page_load_timeout = SessionTimeout
        /\ driver.script_timeout = SessionTimeout

-----------------------------------------------------------------------------
(* Cookie injection, checked under Spec *)

IsSessionCall(c) == c.op \notin {"uc.Chrome", "webdriver.Chrome"}

\* the calls made on the session, the constructors left out
SessionCalls == SelectSeq(driver_log, IsSessionCall)

\* the position in calls of the first navigation to the target URL, 0 if none
TargetNavigation(calls) ==
    LET at == {k \in 1 .. Len(calls) : calls[k].op = "get" /\ calls[k].arg = PageUrl} IN
    IF at = {} THEN 0 ELSE CHOOSE k \in at : \A j \in at : k <= j

\* the solve succeeded with a non-empty cookie list
Injects == flaresolverr_result.success /\ flaresolverr_result.cookies # << >>

\* calls starts with the navigation to the origin, one attach attempt for each
\* cookie in order, then the navigation to the target URL
FullInjection(calls, cookies) ==
    /\ TargetNavigation(calls) = Len(cookies) + 2
    /\ calls[1].op = "get" /\ calls[1].arg = <<"https://www.hltv.org">>
    /\ \A i \in 1 .. Len(cookies) :
          calls[1 + i].op = "add_cookie" /\ calls[1 + i].arg = <<cookies[i]>>

\* C18 as claimed: nothing precedes the navigation to the target URL unless
\* the solve succeeded with cookies, and then what precedes it is one
\* navigation to the origin and one attach attempt for each cookie, in order.
C18_InjectionAlwaysAttachesAll ==
    TargetNavigation(SessionCalls) # 0 =>
        IF Injects THEN FullInjection(SessionCalls, flaresolverr_result.cookies)
        ELSE TargetNavigation(SessionCalls) = 1

\* C18 amended: the same when the navigation to the origin succeeds; when it
\* raises, no cookie is attached and the navigation to the target URL follows
\* at once.  Once _set_cookies is over the navigation to the target URL is next.
C18_InjectionOrder ==
    /\ TargetNavigation(SessionCalls) # 0 =>
          IF ~Injects THEN TargetNavigation(SessionCalls) = 1
          ELSE IF SessionCalls[1].ok
          THEN FullInjection(SessionCalls, flaresolverr_result.cookies)
          ELSE /\ TargetNavigation(SessionCalls) = 2
               /\ SessionCalls[1].op = "get"
               /\ SessionCalls[1].arg = <<"https://www.hltv.org">>
    /\ (SessionCalls # << >> /\ TargetNavigation(SessionCalls) = 0) =>
          (dd_pc = "navigate" /\ Injects)

C18_Witness ==
    /\ Injects
    /\ Len(SessionCalls) >= 4
    /\ SessionCalls[1].ok
    /\ SessionCalls[2].op = "add_cookie" /\ ~SessionCalls[2].ok
    /\ SessionCalls[3].op = "add_cookie" /\ SessionCalls[3].ok
    /\ SessionCalls[4].op = "get" /\ SessionCalls[4].arg = PageUrl /\ SessionCalls[4].ok

-----------------------------------------------------------------------------
(* The backoff of get_flaresolverr_solution, checked under SolverSpec *)

\* C19: every delay has the same fixed length; there is one after each
\* failed attempt that another attempt follows, none after the final attempt
\* and none after a successful one, so retry_count - 1 when all attempts fail.
C19_BackoffBetweenAttemptsOnly ==
    /\ \A i \in 1 .. Len(sol_delays) : sol_delays[i] = BackoffSeconds
    /\ sol_pc = "backoff" => Len(sol_delays) = attempt
    /\ (sol_pc = "for" /\ attempt < retry_count) => Len(sol_delays) = attempt
    /\ (sol_pc = "for" /\ attempt >= retry_count /\ retry_count > 0) =>
          Len(sol_delays) = retry_count - 1
    /\ retry_count = 0 => sol_delays = << >>
    /\ (sol_pc = "done" /\ sol_result.success) => Len(sol_delays) = sol_requests - 1
    /\ (sol_pc = "done" /\ ~sol_result.success /\ retry_count > 0) =>
          Len(sol_delays) = retry_count - 1

C19_Witness ==
    /\ sol_pc = "done"
    /\ ~sol_result.success
    /\ retry_count = 3
    /\ sol_requests = 3
    /\ sol_delays = <<BackoffSeconds, BackoffSeconds>>

-----------------------------------------------------------------------------
(* Leftovers of earlier runs, checked under MonitorSpec *)

\* C20: a final-extension file that was in the directory before the
\* acquisition started is not returned while the acquisition's own file has
\* not appeared yet or is still being written.
C20_NeverReturnsLeftover ==
    (mon_pc = "done" /\ mon_result = OldLeftover) =>
        dl_state \notin {"none", "temp", "direct"}

====
